---------------------------- MODULE Spec2Model ----------------------------
(***************************************************************************)
(* Model of src/app.py: the Tractor & Mower Sales Dashboard.               *)
(*                                                                         *)
(*   _clean_sheet / load_data   sheet normalisation, melt, merge and sort  *)
(*   the script body            filters, KPIs and the chart section        *)
(*   the upload branch          uploaded.xlsx and the st.cache_data cache  *)
(*                                                                         *)
(* Values.  A spreadsheet cell is a record [k, s, n]: k is its kind        *)
(* ("text", "num", "date", "null"), s the text, n the number.  Since       *)
(* pd.to_numeric keeps fractions, numbers are held in HALVES (n = 3 is 1.5 *)
(* units): enough to tell int() from the identity.  A date is its month    *)
(* index year*12 + (month-1).  A nullable pandas value (NaT, NaN) is a     *)
(* record [null, v].                                                       *)
(***************************************************************************)
EXTENDS Integers, Sequences, FiniteSets, TLC

VARIABLES
    mower_raw,    \* load_data: the "Mower Unit Sales" sheet as read
    tractor_raw,  \* load_data: the "Tractor Unit Sales" sheet as read
    mower,        \* _clean_sheet(mower_raw, "Mower"), once load_data ran
    tractor,      \* _clean_sheet(tractor_raw, "Tractor")
    loaded,       \* what load_data returned (or that it raised)
    lpc,          \* "start" before load_data is called, "done" after
    data,         \* the script's `data` frame at the end of a run
    ui,           \* the sidebar: products, regions, years, show_world
    df,           \* the script's `df` frame at the end of a run
    df_obj,       \* which object `df` names: the statement that made it
    kpi,          \* the Top KPIs section's values
    charts,       \* the steps of the Charts section that ran
    ran,          \* whether the script body has run
    file,         \* the workbook stored at uploaded.xlsx, or "absent"
    cache,        \* st.cache_data of load_data: path -> what it returned
    upl,          \* per session: the workbook in its file_uploader, or "none"
    spc,          \* per session: "idle", or "written" (after line 85)
    served        \* per session: the `data` its last run got from load_data

lvars == <<mower_raw, tractor_raw, mower, tractor, loaded, lpc>>
dvars == <<data, ui, df, df_obj, kpi, charts, ran>>
cvars == <<file, cache, upl, spc, served>>
vars == <<lvars, dvars, cvars>>

---------------------------------------------------------------------------
(* Cells *)

T(s) == [k |-> "text", s |-> s, n |-> 0]
N(n) == [k |-> "num", s |-> "", n |-> n]
D(y, m) == [k |-> "date", s |-> "", n |-> y * 12 + (m - 1)]
NULLC == [k |-> "null", s |-> "", n |-> 0]

Val(v) == [null |-> FALSE, v |-> v]
NA == [null |-> TRUE, v |-> 0]

\* 1970-01, where pandas puts a bare number read as nanoseconds since the epoch
EpochMonth == D(1970, 1).n

\* pd.to_datetime(x, errors="coerce") on one cell
to_datetime(c) ==
    CASE c.k = "date" -> Val(c.n)
      [] c.k = "num" -> Val(EpochMonth)
      [] OTHER -> NA

\* pd.to_numeric(x, errors="coerce") on one cell
to_numeric(c) ==
    IF c.k = "num" THEN Val(c.n) ELSE NA

REGION_ALIASES ==
    [h \in {"SA", "Eur", "Europe", "Pacific", "China", "World"} |->
        CASE h = "SA" -> "South America"
          [] h = "Eur" -> "Europe"
          [] OTHER -> h]

\* the set literal of line 43
Canonical == {"South America", "Europe", "Pacific", "China", "World"}

MonthNames ==
    <<"Jan", "Feb", "Mar", "Apr", "May", "Jun",
      "Jul", "Aug", "Sep", "Oct", "Nov", "Dec">>

\* Series.dt.year / Series.dt.strftime("%b"): NaT gives NaN
dt_year(m) == IF m.null THEN NA ELSE Val(m.v \div 12)
dt_month_name(m) == IF m.null THEN "NaN" ELSE MonthNames[(m.v % 12) + 1]

---------------------------------------------------------------------------
(* Sequence helpers *)

RECURSIVE Flatten(_)
Flatten(ss) == IF ss = <<>> THEN <<>> ELSE Head(ss) \o Flatten(Tail(ss))

RECURSIVE SumSeq(_)
SumSeq(s) == IF s = <<>> THEN 0 ELSE Head(s) + SumSeq(Tail(s))

\* the indices of s whose element satisfies P, ascending
Indices(s, P(_)) == SelectSeq([i \in 1..Len(s) |-> i], LAMBDA i : P(s[i]))

---------------------------------------------------------------------------
(* _clean_sheet.  A raw sheet is [ncols, rows]: rows[1] is index 0 of the  *)
(* DataFrame, rows[2] is index 1 (the header row), rows[3..] the data.     *)

\* what a call gave: it raised, or it returned the records rs
RAISED == [called |-> TRUE, raised |-> TRUE, rows |-> <<>>]
Frame(rs) == [called |-> TRUE, raised |-> FALSE, rows |-> rs]
NotYet == [called |-> FALSE, raised |-> FALSE, rows |-> <<>>]

\* df_raw.dropna(axis=1, how="all"): the columns with some non-null cell
dropna_all_columns(raw) ==
    SelectSeq([j \in 1..raw.ncols |-> j],
              LAMBDA j : \E r \in 1..Len(raw.rows) : raw.rows[r][j].k # "null")

\* df.rename(columns=REGION_ALIASES) on one label
rename_alias(lab) ==
    IF lab.k = "text" /\ lab.s \in DOMAIN REGION_ALIASES
    THEN T(REGION_ALIASES[lab.s]) ELSE lab

IsRegionLabel(lab) == lab.k = "text" /\ lab.s \in Canonical

\* dropna that gives up a whole month as soon as one of its regions is null
dropna_any_region(recs) ==
    SelectSeq(recs, LAMBDA r :
        \A i \in 1..Len(recs) : recs[i].Month = r.Month => ~recs[i].Units.null)

\* long_df.dropna(subset=["Units"])
dropna_units(recs) == SelectSeq(recs, LAMBDA r : ~r.Units.null)

\* df.melt(id_vars="Month", ...) with the Product, Year, MonthName columns:
\* column by column, and inside a column row by row
melt(months, regs, cells, product) ==
    Flatten([i \in 1..Len(regs) |->
        [r \in 1..Len(months) |->
            [Month |-> months[r], Region |-> regs[i], Units |-> cells[r][i],
             Product |-> product, Year |-> dt_year(months[r]),
             MonthName |-> dt_month_name(months[r])]]])

_clean_sheet(df_raw, product) ==
    LET keep == dropna_all_columns(df_raw)
    IN  IF Len(df_raw.rows) < 2 THEN RAISED   \* df.iloc[1]: IndexError
        ELSE
        LET new_cols == [i \in 1..Len(keep) |-> df_raw.rows[2][keep[i]]]
            body == [r \in 1..(Len(df_raw.rows) - 2) |->
                        [i \in 1..Len(keep) |-> df_raw.rows[r + 2][keep[i]]]]
            hasMonth == \E i \in 1..Len(new_cols) : new_cols[i] = T("Month")
        IN  IF ~hasMonth /\ new_cols = <<>> THEN RAISED   \* df.columns[0]
            ELSE
            LET cols1 == IF hasMonth THEN new_cols
                         ELSE [i \in 1..Len(new_cols) |->
                                 IF new_cols[i] = new_cols[1] THEN T("Month")
                                 ELSE new_cols[i]]
                monthIdx == Indices(cols1, LAMBDA c : c = T("Month"))
            IN  IF Len(monthIdx) > 1 THEN RAISED   \* to_datetime of a DataFrame
                ELSE
                LET months == [r \in 1..Len(body) |->
                                  to_datetime(body[r][monthIdx[1]])]
                    cols2 == [i \in 1..Len(cols1) |-> rename_alias(cols1[i])]
                    regIdx == Indices(cols2, IsRegionLabel)
                    dup == \E a, b \in 1..Len(regIdx) :
                               a # b /\ cols2[regIdx[a]] = cols2[regIdx[b]]
                IN  IF dup THEN RAISED   \* to_numeric of a DataFrame
                    ELSE
                    LET regs == [i \in 1..Len(regIdx) |-> cols2[regIdx[i]].s]
                        cells == [r \in 1..Len(body) |->
                                    [i \in 1..Len(regIdx) |->
                                        to_numeric(body[r][regIdx[i]])]]
                    IN  Frame(dropna_units(melt(months, regs, cells, product)))

---------------------------------------------------------------------------
(* load_data *)

\* a < b in the order sort_values("Month") uses: NaT after every date
MonthBefore(a, b) == ~a.Month.null /\ (b.Month.null \/ a.Month.v < b.Month.v)

RECURSIVE InsertSorted(_, _)
InsertSorted(sorted, x) ==
    IF sorted = <<>> THEN <<x>>
    ELSE IF MonthBefore(x, Head(sorted)) THEN <<x>> \o sorted
    ELSE <<Head(sorted)>> \o InsertSorted(Tail(sorted), x)

\* the concatenation handed on as it is
sort_values_skipped(recs) == recs

\* sort_values("Month"): ascending, NaT last
RECURSIVE sort_values_Month(_)
sort_values_Month(recs) ==
    IF recs = <<>> THEN <<>>
    ELSE InsertSorted(sort_values_Month(SubSeq(recs, 1, Len(recs) - 1)),
                      recs[Len(recs)])

\* lines 68-70, the sheets already read
load_data(mower_raw_, tractor_raw_) ==
    LET m == _clean_sheet(mower_raw_, "Mower")
        t == _clean_sheet(tractor_raw_, "Tractor")
    IN  IF m.raised \/ t.raised THEN RAISED
        ELSE Frame(sort_values_Month(m.rows \o t.rows))

---------------------------------------------------------------------------
(* The script body, lines 98-153.  Python values that may be None or NaN   *)
(* are records [t, v]; Units and their sums stay in halves, and int()      *)
(* gives whole units.                                                      *)

PyNone == [t |-> "None", v |-> 0]
PyNaN == [t |-> "nan", v |-> 0]
PyNum(v) == [t |-> "num", v |-> v]

\* a Year cell (an int, or NaN under a NaT month) as the Python value
ToPy(y) == IF y.null THEN PyNaN ELSE PyNum(y.v)

\* int(x) of a float held in halves: whole units, truncated toward zero
PyInt(h) == IF h >= 0 THEN h \div 2 ELSE -((-h) \div 2)

\* bool(x): None and 0 are false, NaN is true
Truthy(x) == x.t = "nan" \/ (x.t = "num" /\ x.v # 0)

\* a > b on floats: false as soon as one side is NaN
PyGreater(a, b) == a.t = "num" /\ b.t = "num" /\ a.v > b.v

\* the builtin max(iterable): keeps the first item until a greater one comes
RECURSIVE PyMaxFrom(_, _)
PyMaxFrom(best, rest) ==
    IF rest = <<>> THEN best
    ELSE PyMaxFrom(IF PyGreater(Head(rest), best) THEN Head(rest) ELSE best,
                   Tail(rest))

PyMax(xs) == PyMaxFrom(Head(xs), Tail(xs))

\* df["Units"].sum(), in halves
UnitsSum(recs) == SumSeq([i \in 1..Len(recs) |-> recs[i].Units.v])

\* x in df["Year"].unique(): elementwise ==, so NaN is never found
InYears(x, recs) ==
    x.t = "num" /\ \E i \in 1..Len(recs) : recs[i].Year = Val(x.v)

\* df[df["Year"] == y]
RowsOfYear(recs, y) ==
    SelectSeq(recs, LAMBDA r : y.t = "num" /\ r.Year = Val(y.v))

\* Series.isin(values) on a Year: NaN matches a NaN among the values
YearIsIn(y, years) == ToPy(y) \in years

\* the filters without the copy of line 99, dropping the rows of `data` itself
ApplyFilters_NoCopy(d, u) ==
    LET f1 == IF ~u.show_world THEN SelectSeq(d, LAMBDA r : r.Region # "World") ELSE d
        f2 == IF u.products # {} THEN SelectSeq(f1, LAMBDA r : r.Product \in u.products) ELSE f1
        f3 == IF u.regions # {} THEN SelectSeq(f2, LAMBDA r : r.Region \in u.regions) ELSE f2
        f4 == IF u.years # {} THEN SelectSeq(f3, LAMBDA r : YearIsIn(r.Year, u.years)) ELSE f3
    IN  [data |-> f4, df |-> f4, df_obj |-> "data"]

\* the filters without the `if products:` / `if regions:` / `if years:` tests
ApplyFilters_AlwaysRestrict(d, u) ==
    LET f1 == IF ~u.show_world THEN SelectSeq(d, LAMBDA r : r.Region # "World") ELSE d
        f2 == SelectSeq(f1, LAMBDA r : r.Product \in u.products)
        f3 == SelectSeq(f2, LAMBDA r : r.Region \in u.regions)
        f4 == SelectSeq(f3, LAMBDA r : YearIsIn(r.Year, u.years))
    IN  [data |-> d, df |-> f4, df_obj |-> "line107"]

\* lines 99-107.  Every statement binds df to a new object and none writes
\* the object `data` names; the result names df's object by its statement.
ApplyFilters(d, u) ==
    LET s0 == [obj |-> "line99", rows |-> d]          \* df = data.copy()
        s1 == IF ~u.show_world
              THEN [obj |-> "line101",
                    rows |-> SelectSeq(s0.rows, LAMBDA r : r.Region # "World")]
              ELSE s0
        s2 == IF u.products # {}
              THEN [obj |-> "line103",
                    rows |-> SelectSeq(s1.rows, LAMBDA r : r.Product \in u.products)]
              ELSE s1
        s3 == IF u.regions # {}
              THEN [obj |-> "line105",
                    rows |-> SelectSeq(s2.rows, LAMBDA r : r.Region \in u.regions)]
              ELSE s2
        s4 == IF u.years # {}
              THEN [obj |-> "line107",
                    rows |-> SelectSeq(s3.rows, LAMBDA r : YearIsIn(r.Year, u.years))]
              ELSE s3
    IN  [data |-> d, df |-> s4.rows, df_obj |-> s4.obj]

\* df.groupby("Region")["Units"].sum(): one entry per region present, the
\* keys in sorted order
RegionOrder == <<"China", "Europe", "Pacific", "South America", "World">>

groupby_Region_sum(recs) ==
    LET present == SelectSeq(RegionOrder,
                             LAMBDA g : \E i \in 1..Len(recs) : recs[i].Region = g)
    IN  [i \in 1..Len(present) |->
            [Region |-> present[i],
             Units |-> UnitsSum(SelectSeq(recs, LAMBDA r : r.Region = present[i]))]]

Reverse(s) == [i \in 1..Len(s) |-> s[Len(s) + 1 - i]]

\* the argsort of a short array: insertion sort, ascending by Units
RECURSIVE InsertByUnits(_, _)
InsertByUnits(sorted, x) ==
    IF sorted = <<>> THEN <<x>>
    ELSE IF x.Units < Head(sorted).Units THEN <<x>> \o sorted
    ELSE <<Head(sorted)>> \o InsertByUnits(Tail(sorted), x)

RECURSIVE ArgsortUnits(_)
ArgsortUnits(s) ==
    IF s = <<>> THEN <<>>
    ELSE InsertByUnits(ArgsortUnits(SubSeq(s, 1, Len(s) - 1)), s[Len(s)])

\* Series.sort_values() left at its default, ascending
sort_values_ascending(series) == ArgsortUnits(series)

\* Series.sort_values(ascending=False): the values are reversed, sorted
\* ascending, and the result reversed
sort_values_descending(series) == Reverse(ArgsortUnits(Reverse(series)))

\* the placeholder st.metric shows when there is nothing to show
Placeholder == "-"

\* an exception leaving the expression, as a value
PyRaise == [t |-> "raise", v |-> 0]

NoKPI ==
    [raised |-> FALSE, total_units |-> 0, last_year |-> PyNone, prev_year |-> PyNone,
     ly_units |-> PyNone, py_units |-> PyNone, yoy |-> PyNone,
     ranking |-> <<>>, best_region |-> Placeholder, best_val |-> PyNone,
     tractor_share |-> [t |-> "dash", num |-> 0, den |-> 0]]

\* line 116 without its `if not df.empty`
latest_year_unguarded(recs) ==
    IF recs = <<>> THEN PyRaise   \* max() of an empty sequence: ValueError
    ELSE PyMax([i \in 1..Len(recs) |-> ToPy(recs[i].Year)])

\* line 116: max(df["Year"]) if not df.empty else None
latest_year(recs) ==
    IF recs # <<>> THEN PyMax([i \in 1..Len(recs) |-> ToPy(recs[i].Year)])
    ELSE PyNone

\* line 117: last_year - 1 if last_year else None
previous_year(last_year) ==
    IF Truthy(last_year)
    THEN (IF last_year.t = "num" THEN PyNum(last_year.v - 1) ELSE PyNaN)
    ELSE PyNone

\* the delta taken the other way round
yoy_delta_reversed(ly_units, py_units) == py_units - ly_units

\* line 122
yoy_delta(ly_units, py_units) == ly_units - py_units

\* Series.max() of the region sums
SeriesMax(series) ==
    CHOOSE m \in { series[i].Units : i \in 1..Len(series) } :
        \A i \in 1..Len(series) : m >= series[i].Units

\* lines 140-145: the share stays a ratio num/den (x100, one decimal shown)
TractorShare(recs) ==
    IF recs = <<>> THEN [t |-> "dash", num |-> 0, den |-> 0]
    ELSE LET total == UnitsSum(recs)
             trac == UnitsSum(SelectSeq(recs, LAMBDA r : r.Product = "Tractor"))
         IN  IF total # 0 THEN [t |-> "ratio", num |-> trac, den |-> total]
             ELSE [t |-> "zero", num |-> 0, den |-> 0]

\* lines 115-145
TopKPIs(recs) ==
    LET last_year == latest_year(recs)
        prev_year == previous_year(last_year)
        both == Truthy(last_year) /\ InYears(prev_year, recs)
        ly_units == PyInt(UnitsSum(RowsOfYear(recs, last_year)))
        py_units == PyInt(UnitsSum(RowsOfYear(recs, prev_year)))
        sums == groupby_Region_sum(recs)
        ranking == sort_values_descending(sums)
    IN  IF last_year = PyRaise THEN [NoKPI EXCEPT !.raised = TRUE]
        ELSE
        [raised |-> FALSE,
         total_units |-> PyInt(UnitsSum(recs)),
         last_year |-> last_year,
         prev_year |-> prev_year,
         ly_units |-> IF both THEN PyNum(ly_units) ELSE PyNone,
         py_units |-> IF both THEN PyNum(py_units) ELSE PyNone,
         yoy |-> IF both THEN PyNum(yoy_delta(ly_units, py_units)) ELSE PyNone,
         ranking |-> ranking,
         best_region |-> IF recs # <<>> THEN ranking[1].Region ELSE Placeholder,
         best_val |-> IF recs # <<>> THEN PyNum(PyInt(SeriesMax(sums))) ELSE PyNone,
         tractor_share |-> TractorShare(recs)]

\* lines 152-201: the message, or the four tabs and the CSV download
Charts(recs) ==
    IF recs = <<>> THEN {"info"}
    ELSE {"time_series", "comparison", "seasonality", "pivot", "csv"}

---------------------------------------------------------------------------
(* The sheets load_data is tried on.  Three columns: the month column and  *)
(* two more.  Row 0 is a title row, row 1 the header row.                  *)

MaxDataRows == 2

Width == Len(<<"Month", "SA", "Eur">>)

TitleRow == <<T("PLE Unit Sales"), NULLC, NULLC>>

Headers ==
    { <<T("Month"), T("SA"), T("Eur")>>,            \* the aliases
      <<T("Month"), T("Europe"), T("World")>>,
      <<T("Date"), T("SA"), T("Notes")>>,           \* no "Month": first column
      <<T("Month"), T("South America"), T("Pacific")>>,
      <<T("Month"), T("Eur"), T("Europe")>>,        \* two columns named Europe
      <<T("Month"), T("Month"), T("China")>>,       \* two columns named Month
      <<T("Month"), T("SA"), NULLC>>,
      <<T("Month"), NULLC, NULLC>> }

MonthCells == {D(2019, 12), D(2020, 1), T("n/a")}
UnitCellsB == {N(3), T("n/a"), NULLC}
UnitCellsC == {N(4), NULLC}

DataRows ==
    { <<a, b, c>> : a \in MonthCells, b \in UnitCellsB, c \in UnitCellsC }

RECURSIVE SeqsUpTo(_, _)
SeqsUpTo(S, n) ==
    IF n = 0 THEN {<<>>}
    ELSE LET shorter == SeqsUpTo(S, n - 1)
         IN  shorter \cup
             { Append(q, x) : q \in {p \in shorter : Len(p) = n - 1}, x \in S }

Sheet(rows) == [ncols |-> Width, rows |-> rows]

\* a sheet without rows, one with the title row only, and the full ones
Sheets ==
    { Sheet(<<>>), Sheet(<<TitleRow>>) } \cup
    { Sheet(<<TitleRow, h>> \o d) : h \in Headers, d \in SeqsUpTo(DataRows, MaxDataRows) }

\* the sheet on the other side of load_data
OtherSheets ==
    { Sheet(<<>>),
      Sheet(<<TitleRow, <<T("Month"), T("SA"), T("World")>>,
              <<D(2020, 1), N(2), N(9)>>, <<D(2019, 6), N(5), T("n/a")>>>>),
      Sheet(<<TitleRow, <<T("Month"), T("Eur"), T("Notes")>>>>) }

---------------------------------------------------------------------------
(* The specifications.  Each one leaves the variables of the others alone. *)

Sessions == {"s1", "s2"}
Paths == {"default_path", "tmp_path"}

\* no session has run the script
CacheIdle ==
    /\ file = "absent"
    /\ cache = [p \in Paths |-> NotYet]
    /\ upl = [s \in Sessions |-> "none"]
    /\ spc = [s \in Sessions |-> "idle"]
    /\ served = [s \in Sessions |-> NotYet]

\* the script body has not run
DashIdle ==
    /\ data = <<>>
    /\ ui = [products |-> {}, regions |-> {}, years |-> {}, show_world |-> FALSE]
    /\ df = <<>>
    /\ df_obj = "none"
    /\ kpi = NoKPI
    /\ charts = {}
    /\ ran = FALSE

LoadInit ==
    /\ DashIdle
    /\ CacheIdle
    /\ \E big \in Sheets, other \in OtherSheets :
          \/ mower_raw = big /\ tractor_raw = other
          \/ mower_raw = other /\ tractor_raw = big
    /\ mower = NotYet
    /\ tractor = NotYet
    /\ loaded = NotYet
    /\ lpc = "start"

\* one call of load_data (lines 68-70); the two _clean_sheet results are kept.
\* The second _clean_sheet is not reached when the first raises.
LoadData ==
    /\ lpc = "start"
    /\ mower' = _clean_sheet(mower_raw, "Mower")
    /\ tractor' = IF mower'.raised THEN NotYet
                  ELSE _clean_sheet(tractor_raw, "Tractor")
    /\ loaded' = load_data(mower_raw, tractor_raw)
    /\ lpc' = "done"
    /\ UNCHANGED <<mower_raw, tractor_raw>>
    /\ UNCHANGED <<dvars, cvars>>

LoadNext == LoadData

SpecLoad == LoadInit /\ [][LoadNext]_vars

---------------------------------------------------------------------------
(* The script runs: load_data has returned (Streamlit hands the script a    *)
(* copy of the cached frame on every run), the sidebar holds a selection,  *)
(* and lines 98-153 run to the end.                                        *)

MaxMowerRows == 1

WideHeader == <<T("Month"), T("SA"), T("Eur"), T("World")>>
WideTitle == <<T("PLE Unit Sales"), NULLC, NULLC, NULLC>>

WideRows ==
    { <<a, b, N(4), N(9)>> : a \in MonthCells, b \in {N(3), N(4)} }

WideSheet(rows) == [ncols |-> Len(WideHeader), rows |-> <<WideTitle, WideHeader>> \o rows]

MowerSheets == { WideSheet(d) : d \in SeqsUpTo(WideRows, MaxMowerRows) }

TractorSheets ==
    { WideSheet(<<>>),
      WideSheet(<< <<D(2018, 6), N(2), N(6), NULLC>>,
                   <<D(2020, 1), N(1), N(3), N(5)>> >>) }

\* the options the sidebar offers (lines 92-94)
ProductOptions == {"Tractor", "Mower"}
RegionOptions(recs) == { recs[i].Region : i \in 1..Len(recs) }
YearOptions(recs) == { ToPy(recs[i].Year) : i \in 1..Len(recs) }

\* the selection the widgets start with (the default= of lines 92-96)
DefaultUI(recs) ==
    [products |-> ProductOptions,
     regions |-> RegionOptions(recs) \ {"World"},
     years |-> YearOptions(recs),
     show_world |-> FALSE]

DashInit ==
    /\ mower_raw \in MowerSheets
    /\ tractor_raw \in TractorSheets
    /\ mower = _clean_sheet(mower_raw, "Mower")
    /\ tractor = _clean_sheet(tractor_raw, "Tractor")
    /\ loaded = load_data(mower_raw, tractor_raw)
    /\ lpc = "done"
    /\ data = <<>>
    /\ ui = DefaultUI(loaded.rows)
    /\ df = <<>>
    /\ df_obj = "none"
    /\ kpi = NoKPI
    /\ charts = {}
    /\ ran = FALSE
    /\ CacheIdle

\* one run of the script, top to bottom, with the sidebar holding u
RunScript(u) ==
    LET r == ApplyFilters(loaded.rows, u)
    IN  /\ ~loaded.raised
        /\ ui' = u
        /\ data' = r.data
        /\ df' = r.df
        /\ df_obj' = r.df_obj
        /\ kpi' = TopKPIs(r.df)
        /\ charts' = Charts(r.df)
        /\ ran' = TRUE
        /\ UNCHANGED <<lvars, cvars>>

Toggle(S, x) == IF x \in S THEN S \ {x} ELSE S \cup {x}

\* the page is opened: the script runs with the default selection
FirstRun ==
    /\ ~ran
    /\ RunScript(ui)

\* a widget changes, and Streamlit runs the script again
ChangeProducts ==
    /\ ran
    /\ \E p \in ProductOptions :
          RunScript([ui EXCEPT !.products = Toggle(@, p)])

ChangeRegions ==
    /\ ran
    /\ \E g \in RegionOptions(loaded.rows) :
          RunScript([ui EXCEPT !.regions = Toggle(@, g)])

ChangeYears ==
    /\ ran
    /\ \E y \in YearOptions(loaded.rows) :
          RunScript([ui EXCEPT !.years = Toggle(@, y)])

ChangeShowWorld ==
    /\ ran
    /\ RunScript([ui EXCEPT !.show_world = ~@])

DashNext ==
    \/ FirstRun
    \/ ChangeProducts
    \/ ChangeRegions
    \/ ChangeYears
    \/ ChangeShowWorld

SpecDash == DashInit /\ [][DashNext]_vars

---------------------------------------------------------------------------
(* The upload branch (lines 78-89) and the cache of load_data.              *)
(* st.cache_data keys an entry by the function's arguments: here the Path, *)
(* "uploaded.xlsx" for every upload and data/ple_sales.xlsx otherwise.     *)
(* Each session runs the script in a thread of its own.                    *)

\* the workbooks: the bundled one and two a user may upload
Workbooks ==
    [bundled |->
        [mower |-> Sheet(<<TitleRow, <<T("Month"), T("SA"), T("Eur")>>,
                           <<D(2020, 1), N(4), N(6)>>>>),
         tractor |-> Sheet(<<TitleRow, <<T("Month"), T("SA"), T("World")>>,
                             <<D(2020, 1), N(2), N(8)>>>>)],
     older |->
        [mower |-> Sheet(<<TitleRow, <<T("Month"), T("SA"), T("Eur")>>,
                           <<D(2019, 12), N(3), N(4)>>>>),
         tractor |-> Sheet(<<TitleRow, <<T("Month"), T("Eur"), T("Notes")>>>>)],
     newer |->
        [mower |-> Sheet(<<TitleRow, <<T("Month"), T("SA"), T("Eur")>>,
                           <<D(2019, 12), N(3), N(4)>>, <<D(2020, 1), N(4), NULLC>>>>),
         tractor |-> Sheet(<<TitleRow, <<T("Month"), T("Eur"), T("Notes")>>>>)]]

Uploadable == {"older", "newer"}

\* the dataset lines 62-70 build from a workbook
Build(b) == load_data(Workbooks[b].mower, Workbooks[b].tractor)

\* load_data(path) behind @st.cache_data: the entry of the path if there is
\* one, else what is built from the file now at the path, which is stored
CachedLoad(path, content) ==
    IF cache[path].called THEN [value |-> cache[path], cache |-> cache]
    ELSE [value |-> Build(content),
          cache |-> [cache EXCEPT ![path] = Build(content)]]

\* a run with a file in the uploader, up to line 85: the upload is written
\* to uploaded.xlsx.  b is the file the user put there (or left there).
WriteUpload(s) ==
    /\ spc[s] = "idle"
    /\ \E b \in Uploadable :
          /\ upl' = [upl EXCEPT ![s] = b]
          /\ file' = b
    /\ spc' = [spc EXCEPT ![s] = "written"]
    /\ UNCHANGED <<cache, served>>
    /\ UNCHANGED <<lvars, dvars>>

\* line 86, the run going on: data = load_data(tmp_path)
LoadUploaded(s) ==
    /\ spc[s] = "written"
    /\ LET got == CachedLoad("tmp_path", file)
       IN  /\ served' = [served EXCEPT ![s] = got.value]
           /\ cache' = got.cache
    /\ spc' = [spc EXCEPT ![s] = "idle"]
    /\ UNCHANGED <<file, upl>>
    /\ UNCHANGED <<lvars, dvars>>

\* a run with the uploader empty, line 89: data = load_data(default_path)
LoadDefault(s) ==
    /\ spc[s] = "idle"
    /\ LET got == CachedLoad("default_path", "bundled")
       IN  /\ served' = [served EXCEPT ![s] = got.value]
           /\ cache' = got.cache
    /\ upl' = [upl EXCEPT ![s] = "none"]
    /\ UNCHANGED <<file, spc>>
    /\ UNCHANGED <<lvars, dvars>>

CacheInit ==
    /\ CacheIdle
    /\ DashIdle
    /\ mower_raw = Sheet(<<>>)
    /\ tractor_raw = Sheet(<<>>)
    /\ mower = NotYet
    /\ tractor = NotYet
    /\ loaded = NotYet
    /\ lpc = "start"

CacheNext ==
    \E s \in Sessions :
        \/ WriteUpload(s)
        \/ LoadUploaded(s)
        \/ LoadDefault(s)

SpecCache == CacheInit /\ [][CacheNext]_vars

(* C10: after any interleaving of uploads, the dataset a session gets from  *)
(* load_data is the one built from the content that session uploaded; a    *)
(* later or concurrent upload of other content never makes a session see   *)
(* a dataset built from another upload.                                    *)
C10_ServedOwnUpload ==
    \A s \in Sessions :
        (spc[s] = "idle" /\ upl[s] # "none" /\ served[s].called) =>
            served[s] = Build(upl[s])

---------------------------------------------------------------------------
(* Claims about load_data and _clean_sheet, read off the raw sheets        *)

Done == lpc = "done"
Returned(c) == c.called /\ ~c.raised

RawSheets == <<mower_raw, tractor_raw>>
Cleaned == <<mower, tractor>>

HeaderOf(raw) == raw.rows[2]
DataRowsOf(raw) == SubSeq(raw.rows, 3, Len(raw.rows))

\* the column _clean_sheet reads the months from
MonthColOf(raw) ==
    IF \E j \in 1..raw.ncols : HeaderOf(raw)[j] = T("Month")
    THEN CHOOSE j \in 1..raw.ncols : HeaderOf(raw)[j] = T("Month")
    ELSE 1

IsAliasKey(h) == h.k = "text" /\ h.s \in DOMAIN REGION_ALIASES
IsCanonicalName(h) == h.k = "text" /\ h.s \in Canonical

\* the columns of a sheet that are kept as regions, and the region of each
RegionColsOf(raw) ==
    { j \in 1..raw.ncols :
        j # MonthColOf(raw) /\ (IsAliasKey(HeaderOf(raw)[j]) \/ IsCanonicalName(HeaderOf(raw)[j])) }

RegionOfCol(raw, j) ==
    IF IsAliasKey(HeaderOf(raw)[j]) THEN REGION_ALIASES[HeaderOf(raw)[j].s]
    ELSE HeaderOf(raw)[j].s

SortedByMonth(recs) ==
    \A i \in 1..(Len(recs) - 1) : ~MonthBefore(recs[i + 1], recs[i])

RegionsAndProductsOK(recs) ==
    \A i \in 1..Len(recs) :
        recs[i].Region \in Canonical /\ recs[i].Product \in {"Tractor", "Mower"}

\* no record of sheet k comes from a column whose header satisfies Outside
NoRegionFrom(k, Outside(_)) ==
    \A j \in 1..RawSheets[k].ncols :
        LET h == HeaderOf(RawSheets[k])[j]
        IN  (h.k = "text" /\ Outside(h)) =>
                \A i \in 1..Len(Cleaned[k].rows) : Cleaned[k].rows[i].Region # h.s

(* C1 as stated: the dataset load_data returns is ordered by Month, holds  *)
(* only canonical regions and the two products, and a raw column whose     *)
(* header is not in the alias table (not a key of REGION_ALIASES) never    *)
(* becomes a region.                                                       *)
C1_AsStated ==
    (Done /\ ~loaded.raised) =>
        /\ SortedByMonth(loaded.rows)
        /\ RegionsAndProductsOK(loaded.rows)
        /\ \A k \in 1..2 : NoRegionFrom(k, LAMBDA h : ~IsAliasKey(h))

(* C1, amended: the dataset load_data returns is ordered by Month          *)
(* ascending, every Region is canonical and every Product is Tractor or    *)
(* Mower; a raw column whose header is neither a key of the alias table    *)
(* nor itself a canonical region name never becomes a region.              *)
C1_SortedCanonical ==
    (Done /\ ~loaded.raised) =>
        /\ SortedByMonth(loaded.rows)
        /\ RegionsAndProductsOK(loaded.rows)
        /\ \A k \in 1..2 :
              NoRegionFrom(k, LAMBDA h : ~IsAliasKey(h) /\ ~IsCanonicalName(h))

\* load_data returned records of both products that the sort had to reorder,
\* from a sheet with a numeric column under a header that is no region
C1_Witness ==
    /\ Done /\ ~loaded.raised
    /\ loaded.rows # mower.rows \o tractor.rows
    /\ \E i, j \in 1..Len(loaded.rows) :
          loaded.rows[i].Product # loaded.rows[j].Product
    /\ HeaderOf(mower_raw)[3] = T("Notes")
    /\ \E r \in 1..Len(DataRowsOf(mower_raw)) : DataRowsOf(mower_raw)[r][3].k = "num"

\* the sheet is short of the shape _clean_sheet assumes: fewer than 3 rows,
\* or no non-empty column besides the month column
Malformed(raw) ==
    \/ Len(raw.rows) < 3
    \/ \A j \in 2..raw.ncols : \A r \in 1..Len(raw.rows) : raw.rows[r][j].k = "null"

(* C6: normalizing a sheet with fewer than 3 rows, or with no non-empty     *)
(* column besides the month column, yields an empty record set and does    *)
(* not raise; load_data then still returns the other sheet's records.      *)
C6_MalformedYieldsEmpty ==
    Done =>
        /\ \A k \in 1..2 :
              (Malformed(RawSheets[k]) /\ Cleaned[k].called) => Cleaned[k] = Frame(<<>>)
        /\ (Malformed(mower_raw) /\ Returned(tractor)) =>
               (~loaded.raised /\ loaded.rows = sort_values_Month(tractor.rows))
        /\ (Malformed(tractor_raw) /\ Returned(mower)) =>
               (~loaded.raised /\ loaded.rows = sort_values_Month(mower.rows))

(* C8: every record _clean_sheet produces, and so every record of the      *)
(* unified dataset, has a non-null Month and a non-null Units.             *)
C8_MonthAndUnitsNonNull ==
    Done =>
        \A recs \in {mower.rows, tractor.rows, loaded.rows} :
            \A i \in 1..Len(recs) : ~recs[i].Month.null /\ ~recs[i].Units.null

\* what one region column of a sheet must contribute: one (Month, Units) pair
\* per data row whose cell is numeric, in row order
ExpectedOfCol(raw, j) ==
    LET numeric == SelectSeq(DataRowsOf(raw), LAMBDA row : row[j].k = "num")
    IN  [i \in 1..Len(numeric) |->
            <<to_datetime(numeric[i][MonthColOf(raw)]), numeric[i][j].n>>]

EmittedOfRegion(recs, g) ==
    LET mine == SelectSeq(recs, LAMBDA r : r.Region = g)
    IN  [i \in 1..Len(mine) |-> <<mine[i].Month, mine[i].Units.v>>]

NullCells(raw) ==
    Cardinality({ <<r, j>> \in (1..Len(DataRowsOf(raw))) \X RegionColsOf(raw) :
                     DataRowsOf(raw)[r][j].k # "num" })

(* C9: the reshape emits exactly one record per (data row, retained region  *)
(* column) pair whose cell is numeric and none for a null or non-numeric   *)
(* cell: the count is rows x region columns minus the null cells, a bad    *)
(* cell costs only its own record, and no record is duplicated.            *)
C9_OneRecordPerNumericCell ==
    Done =>
        \A k \in 1..2 :
            Returned(Cleaned[k]) =>
                LET raw == RawSheets[k]
                    recs == Cleaned[k].rows
                IN  /\ Len(recs) = Len(DataRowsOf(raw)) * Cardinality(RegionColsOf(raw))
                                      - NullCells(raw)
                    /\ \A j \in RegionColsOf(raw) :
                          EmittedOfRegion(recs, RegionOfCol(raw, j)) = ExpectedOfCol(raw, j)
                    /\ \A i \in 1..Len(recs) :
                          \E j \in RegionColsOf(raw) : recs[i].Region = RegionOfCol(raw, j)

\* a row whose first region cell is the text "n/a" and whose second region
\* cell is a number: the second column's record is there, the first's is not
C9_Witness ==
    /\ Done /\ Returned(mower)
    /\ Cardinality(RegionColsOf(mower_raw)) = 2
    /\ \E r \in 1..Len(DataRowsOf(mower_raw)) :
          /\ DataRowsOf(mower_raw)[r][2] = T("n/a")
          /\ DataRowsOf(mower_raw)[r][3].k = "num"
    /\ Len(mower.rows) >= 2
    /\ NullCells(mower_raw) >= 1

---------------------------------------------------------------------------
(* Claims about the filters and the KPIs *)

\* the four conditions of the filter section on one record, taken together
Selected(r, u) ==
    /\ (r.Region # "World" \/ u.show_world)
    /\ (u.products = {} \/ r.Product \in u.products)
    /\ (u.regions = {} \/ r.Region \in u.regions)
    /\ (u.years = {} \/ ToPy(r.Year) \in u.years)

(* C2: the filtered collection is exactly the records of the unified        *)
(* dataset with (Region not World, or include_world) and (products empty,  *)
(* or Product in products) and (regions empty, or Region in regions) and   *)
(* (years empty, or Year in years), in the dataset's order.                *)
C2_FilterIsConjunction ==
    ran => df = SelectSeq(loaded.rows, LAMBDA r : Selected(r, ui))

\* no product is selected, World is listed among the regions with the
\* checkbox off, the dataset has World records, and something is left
C2_Witness ==
    /\ ran
    /\ ui.products = {}
    /\ "World" \in ui.regions /\ ~ui.show_world
    /\ \E i \in 1..Len(loaded.rows) : loaded.rows[i].Region = "World"
    /\ df # <<>>

(* C3: applying filters never changes the unified dataset: after any       *)
(* sequence of runs it holds the records load_data returned, in the same   *)
(* order, and the filtered collection is another object.                   *)
C3_DatasetUntouched ==
    ran => (data = loaded.rows /\ df_obj # "data")

\* after a change of the selection, a run whose filters removed some records
\* and kept others
C3_Witness ==
    /\ ran
    /\ ui # DefaultUI(loaded.rows)
    /\ df # <<>>
    /\ Len(df) < Len(data)

RealYears(recs) == { recs[i].Year.v : i \in { j \in 1..Len(recs) : ~recs[j].Year.null } }
MaxOf(S) == CHOOSE m \in S : \A x \in S : m >= x
HalvesOfYear(recs, y) == UnitsSum(SelectSeq(recs, LAMBDA r : r.Year = Val(y)))
NoYoY == kpi.ly_units = PyNone /\ kpi.py_units = PyNone /\ kpi.yoy = PyNone

\* the year-over-year triple is (latest, prior, latest - prior), where
\* latest and prior are what Whole makes of the two years' sums (in halves)
YoYIs(Whole(_, _)) ==
    IF RealYears(df) = {} THEN NoYoY
    ELSE LET latest == MaxOf(RealYears(df))
         IN  IF latest - 1 \notin RealYears(df) THEN NoYoY
             ELSE /\ kpi.ly_units.t = "num" /\ kpi.py_units.t = "num"
                  /\ Whole(kpi.ly_units.v, HalvesOfYear(df, latest))
                  /\ Whole(kpi.py_units.v, HalvesOfYear(df, latest - 1))
                  /\ kpi.yoy = PyNum(kpi.ly_units.v - kpi.py_units.v)

(* C4 as stated: the triple is none whenever no record has Year equal to    *)
(* the latest year minus 1 (an empty collection included); otherwise       *)
(* latest units IS the sum of Units over the records of the maximum Year,  *)
(* prior units the sum over that Year minus 1, delta = latest - prior.     *)
C4_AsStated ==
    ran => YoYIs(LAMBDA whole, halves : 2 * whole = halves)

(* C4, amended: as stated, except that latest units and prior units are    *)
(* the two sums cut to whole numbers by int() (truncation toward zero),    *)
(* and delta is the difference of these whole numbers.                     *)
C4_YearOverYear ==
    ran => YoYIs(LAMBDA whole, halves : whole = PyInt(halves))

\* both years are there, the latest year sold less than the one before, and
\* the prior year's sum is not a whole number
C4_Witness ==
    /\ ran
    /\ kpi.yoy.t = "num" /\ kpi.yoy.v < 0
    /\ HalvesOfYear(df, kpi.prev_year.v) % 2 = 1

RegionTotal(recs, g) == UnitsSum(SelectSeq(recs, LAMBDA r : r.Region = g))

(* C5: for a non-empty filtered collection the top region's summed Units    *)
(* is the maximum over the regions present, the reported total is that     *)
(* region's total, and the region is the first of the descending-by-total  *)
(* ordering of the regions present (so also under a tie).                  *)
C5_TopRegionIsMaximum ==
    (ran /\ df # <<>>) =>
        LET present == RegionOptions(df)
        IN  /\ kpi.best_region \in present
            /\ \A g \in present :
                  RegionTotal(df, kpi.best_region) >= RegionTotal(df, g)
            /\ kpi.best_val = PyNum(PyInt(RegionTotal(df, kpi.best_region)))
            /\ Len(kpi.ranking) = Cardinality(present)
            /\ { kpi.ranking[i].Region : i \in 1..Len(kpi.ranking) } = present
            /\ \A i \in 1..Len(kpi.ranking) :
                  kpi.ranking[i].Units = RegionTotal(df, kpi.ranking[i].Region)
            /\ \A i \in 1..(Len(kpi.ranking) - 1) :
                  kpi.ranking[i].Units >= kpi.ranking[i + 1].Units
            /\ kpi.best_region = kpi.ranking[1].Region

\* two regions tie for the maximum
C5_Witness ==
    /\ ran
    /\ \E g, h \in RegionOptions(df) :
          /\ g # h
          /\ RegionTotal(df, g) = RegionTotal(df, h)
          /\ \A x \in RegionOptions(df) : RegionTotal(df, g) >= RegionTotal(df, x)

(* C7: over an empty filtered collection nothing raises: total units is 0,  *)
(* latest year and the year-over-year triple are none, top region and      *)
(* product share show the placeholder, and the chart section shows the     *)
(* no-data message instead of the tabs and the CSV download.               *)
C7_EmptyIsDefined ==
    (ran /\ df = <<>>) =>
        /\ ~kpi.raised
        /\ kpi.total_units = 0
        /\ kpi.last_year = PyNone
        /\ NoYoY
        /\ kpi.best_region = Placeholder /\ kpi.best_val = PyNone
        /\ kpi.tractor_share.t = "dash"
        /\ charts = {"info"}

\* the dataset has records and the selection leaves none
C7_Witness ==
    /\ ran
    /\ loaded.rows # <<>>
    /\ df = <<>>

====
